---- MODULE Spec2Model ----
(***************************************************************************)
(* Model of motiga/core/factory.py: descriptor-style accessors that read   *)
(* and write attributes of a scene-graph node.  The node is the only       *)
(* state; every accessor re-derives its result from the node on each call. *)
(*                                                                         *)
(* Python values are tagged records.  Python strings are sequences of      *)
(* one-character strings, so that json.dumps really produces text and      *)
(* json.loads really parses it.                                            *)
(***************************************************************************)
EXTENDS Integers, Sequences, FiniteSets, TLC

VARIABLES
    cls,      \* the descriptor class under exercise (one accessor per node)
    obj,      \* the node: attribute name -> attribute slot
    last,     \* the most recent descriptor call: op, arg, ret, existed
    lastSet   \* argument of the most recent __set__, or Never

vars == <<cls, obj, last, lastSet>>

\* ---------------------------------------------------------------- bounds
MaxLen == 2
RecursionLimit == 6

\* ------------------------------------------------------- python values
None == [t |-> "None"]
PyStr(s) == [t |-> "str", s |-> s]
PyInt(n) == [t |-> "int", n |-> n]
PyFloat(m) == [t |-> "float", milli |-> m]
PyNode(nm) == [t |-> "node", name |-> nm]
PyList(xs) == [t |-> "list", items |-> xs]
PyDict(ps) == [t |-> "dict", pairs |-> ps]
Raise(e) == [t |-> "raise", exc |-> e]
Never == [t |-> "never"]

EmptyStr == PyStr(<< >>)

isinstance_basestring(v) == v.t = "str"

\* Python truth value of the values the accessors receive.
Truthy(v) ==
    CASE v.t = "None" -> FALSE
      [] v.t = "str" -> v.s # << >>
      [] v.t = "int" -> v.n # 0
      [] v.t = "float" -> v.milli # 0
      [] v.t = "list" -> v.items # << >>
      [] v.t = "dict" -> v.pairs # << >>
      [] OTHER -> TRUE

\* ------------------------------------------------ the node (host graph)
StringAttrName == "motigaString"
IntAttrName == "motigaInt"
FloatAttrName == "motigaFloat"
MirrorAttrName == "motigaMirror"
TargetAttrName == "motigaTarget"
DataAttrName == "motigaData"
DirectAttrName == "motigaDirect"

AttrNames == {StringAttrName, IntAttrName, FloatAttrName, MirrorAttrName,
              TargetAttrName, DataAttrName, DirectAttrName}

NodeNames == {<<"A">>, <<"B">>, <<"C">>}

Absent == [exists |-> FALSE, type |-> "", value |-> None, conns |-> << >>]

FreshValue(type) ==
    CASE type = "string" -> EmptyStr
      [] type = "long" -> PyInt(0)
      [] type = "double" -> PyFloat(0)
      [] OTHER -> None

hasAttr(o, attrName) == o[attrName].exists

addAttr(o, attrName, type) ==
    [o EXCEPT ![attrName] = [exists |-> TRUE, type |-> type,
                             value |-> FreshValue(type), conns |-> << >>]]

attrGet(o, attrName) == o[attrName].value

attrSet(o, attrName, val) == [o EXCEPT ![attrName].value = val]

listConnections(o, attrName) == o[attrName].conns

disconnect(o, attrName) == [o EXCEPT ![attrName].conns = << >>]

\* value.message >> attr : a forced connection replaces the inbound one.
connect(o, attrName, node) == [o EXCEPT ![attrName].conns = <<node>>]

\* ------------------------------------------- attribute access utilities
_getSingleConnection(o, attrName) ==
    IF ~hasAttr(o, attrName) THEN None
    ELSE LET connections == listConnections(o, attrName) IN
         IF connections # << >> THEN connections[1] ELSE None

messageAttr(o, name) ==
    IF ~hasAttr(o, name) THEN addAttr(o, name, "message") ELSE o

\* Mutation: a falsy value is ignored instead of disconnecting.
_setSingleConnection_keep(o, attrName, value) ==
    IF Truthy(value)
    THEN IF isinstance_basestring(value)
         THEN connect(messageAttr(o, attrName), attrName, PyNode(value.s))
         ELSE connect(messageAttr(o, attrName), attrName, value)
    ELSE o

\* Mutation: a falsy value goes through messageAttr, which creates the slot.
_setSingleConnection_create(o, attrName, value) ==
    IF Truthy(value)
    THEN IF isinstance_basestring(value)
         THEN connect(messageAttr(o, attrName), attrName, PyNode(value.s))
         ELSE connect(messageAttr(o, attrName), attrName, value)
    ELSE disconnect(messageAttr(o, attrName), attrName)

_setSingleConnection(o, attrName, value) ==
    IF Truthy(value)
    THEN IF isinstance_basestring(value)
         THEN connect(messageAttr(o, attrName), attrName, PyNode(value.s))
         ELSE connect(messageAttr(o, attrName), attrName, value)
    ELSE IF hasAttr(o, attrName) THEN disconnect(o, attrName) ELSE o

_getStringAttr(o, attrName) ==
    IF hasAttr(o, attrName) THEN attrGet(o, attrName) ELSE EmptyStr

\* Mutation: None is written as the empty string.
_setStringAttr_blank(o, attrName, val) ==
    LET o1 == IF ~hasAttr(o, attrName) THEN addAttr(o, attrName, "string") ELSE o
    IN  attrSet(o1, attrName, IF val # None THEN val ELSE EmptyStr)

_setStringAttr(o, attrName, val) ==
    LET o1 == IF ~hasAttr(o, attrName) THEN addAttr(o, attrName, "string") ELSE o
    IN  IF val # None THEN attrSet(o1, attrName, val) ELSE o1

_getSingleStringConnection(o, attrName) ==
    IF ~hasAttr(o, attrName) THEN EmptyStr
    ELSE LET connections == listConnections(o, attrName) IN
         IF connections # << >> THEN connections[1] ELSE attrGet(o, attrName)

\* Mutation: a Node value blanks the stored string before connecting.
_setSingleStringConnection_clear(o, attrName, value) ==
    IF Truthy(value)
    THEN IF isinstance_basestring(value)
         THEN LET o1 == IF hasAttr(o, attrName) /\ listConnections(o, attrName) # << >>
                        THEN disconnect(o, attrName) ELSE o
              IN  _setStringAttr(o1, attrName, value)
         ELSE connect(_setStringAttr(o, attrName, EmptyStr), attrName, value)
    ELSE IF hasAttr(o, attrName)
         THEN attrSet(disconnect(o, attrName), attrName, EmptyStr)
         ELSE o

\* Mutation: a string value is written without disconnecting first.
_setSingleStringConnection_nodisc(o, attrName, value) ==
    IF Truthy(value)
    THEN IF isinstance_basestring(value)
         THEN _setStringAttr(o, attrName, value)
         ELSE connect(_setStringAttr(o, attrName, None), attrName, value)
    ELSE IF hasAttr(o, attrName)
         THEN attrSet(disconnect(o, attrName), attrName, EmptyStr)
         ELSE o

\* Mutation: the string write has slipped into an else of the disconnect.
_setSingleStringConnection_else(o, attrName, value) ==
    IF Truthy(value)
    THEN IF isinstance_basestring(value)
         THEN IF hasAttr(o, attrName) /\ listConnections(o, attrName) # << >>
              THEN disconnect(o, attrName)
              ELSE _setStringAttr(o, attrName, value)
         ELSE connect(_setStringAttr(o, attrName, None), attrName, value)
    ELSE IF hasAttr(o, attrName)
         THEN attrSet(disconnect(o, attrName), attrName, EmptyStr)
         ELSE o

_setSingleStringConnection(o, attrName, value) ==
    IF Truthy(value)
    THEN IF isinstance_basestring(value)
         THEN LET o1 == IF hasAttr(o, attrName) /\ listConnections(o, attrName) # << >>
                        THEN disconnect(o, attrName) ELSE o
              IN  _setStringAttr(o1, attrName, value)
         ELSE connect(_setStringAttr(o, attrName, None), attrName, value)
    ELSE IF hasAttr(o, attrName)
         THEN attrSet(disconnect(o, attrName), attrName, EmptyStr)
         ELSE o

IntSentinel == -666
FloatSentinelMilli == -666666

_getIntAttr(o, attrName) ==
    IF hasAttr(o, attrName) THEN attrGet(o, attrName) ELSE PyInt(IntSentinel)

\* Mutation: the write has slipped into an else of the creation.
_setIntAttr_else(o, attrName, val) ==
    IF ~hasAttr(o, attrName) THEN addAttr(o, attrName, "long")
    ELSE IF val # None THEN attrSet(o, attrName, val) ELSE o

_setIntAttr(o, attrName, val) ==
    LET o1 == IF ~hasAttr(o, attrName) THEN addAttr(o, attrName, "long") ELSE o
    IN  IF val # None THEN attrSet(o1, attrName, val) ELSE o1

\* Mutation: the integer sentinel is returned for a missing float attribute.
_getFloatAttr_int(o, attrName) ==
    IF hasAttr(o, attrName) THEN attrGet(o, attrName) ELSE PyFloat(IntSentinel * 1000)

_getFloatAttr(o, attrName) ==
    IF hasAttr(o, attrName) THEN attrGet(o, attrName) ELSE PyFloat(FloatSentinelMilli)

_setFloatAttr(o, attrName, val) ==
    LET o1 == IF ~hasAttr(o, attrName) THEN addAttr(o, attrName, "double") ELSE o
    IN  IF val # None THEN attrSet(o1, attrName, val) ELSE o1

\* ------------------------------------------------------------ json text
DigitChars == <<"0", "1", "2", "3", "4", "5", "6", "7", "8", "9">>

RECURSIVE NatText(_)
NatText(n) ==
    IF n < 10 THEN <<DigitChars[n + 1]>>
    ELSE NatText(n \div 10) \o <<DigitChars[(n % 10) + 1]>>

IntText(n) == IF n < 0 THEN <<"-">> \o NatText(-n) ELSE NatText(n)

\* Mutation: quotes and backslashes are written unescaped.
EscapeText_raw(s) == s

RECURSIVE EscapeText(_)
EscapeText(s) ==
    IF s = << >> THEN << >>
    ELSE (IF Head(s) \in {"\"", "\\"} THEN <<"\\", Head(s)>> ELSE <<Head(s)>>)
         \o EscapeText(Tail(s))

QuotedText(s) == <<"\"">> \o EscapeText(s) \o <<"\"">>

\* An object key is always written as a string: str(k) for a number.
KeyText(k) ==
    CASE k.t = "str" -> QuotedText(k.s)
      [] k.t = "int" -> QuotedText(IntText(k.n))
      [] OTHER -> QuotedText(<<"n", "u", "l", "l">>)

RECURSIVE json_dumps(_)
RECURSIVE DumpItems(_)
RECURSIVE DumpPairs(_)

DumpItems(xs) ==
    IF xs = << >> THEN << >>
    ELSE json_dumps(Head(xs))
         \o (IF Tail(xs) = << >> THEN << >> ELSE <<",", " ">> \o DumpItems(Tail(xs)))

DumpPairs(ps) ==
    IF ps = << >> THEN << >>
    ELSE KeyText(Head(ps).k) \o <<":", " ">> \o json_dumps(Head(ps).v)
         \o (IF Tail(ps) = << >> THEN << >> ELSE <<",", " ">> \o DumpPairs(Tail(ps)))

json_dumps(v) ==
    CASE v.t = "None" -> <<"n", "u", "l", "l">>
      [] v.t = "int" -> IntText(v.n)
      [] v.t = "str" -> QuotedText(v.s)
      [] v.t = "list" -> <<"[">> \o DumpItems(v.items) \o <<"]">>
      [] v.t = "dict" -> <<"{">> \o DumpPairs(v.pairs) \o <<"}">>

\* d[k] = v on an ordered mapping: an existing key keeps its position.
DictSetItem(ps, k, v) ==
    IF \E i \in 1..Len(ps) : ps[i].k = k
    THEN [i \in 1..Len(ps) |-> IF ps[i].k = k THEN [k |-> k, v |-> v] ELSE ps[i]]
    ELSE Append(ps, [k |-> k, v |-> v])

DictGetItem(ps, k) ==
    IF \E i \in 1..Len(ps) : ps[i].k = k
    THEN ps[CHOOSE i \in 1..Len(ps) : ps[i].k = k].v
    ELSE Raise("KeyError")

RECURSIVE DictUpdate(_, _)
DictUpdate(ps, other) ==
    IF other = << >> THEN ps
    ELSE DictUpdate(DictSetItem(ps, Head(other).k, Head(other).v), Tail(other))

\* object_pairs_hook: the pairs in text order, a repeated key keeping the
\* last value.
OrderedDict(pairs) == PyDict(DictUpdate(<< >>, pairs))

ParseError == [ok |-> FALSE, v |-> Raise("ValueError"), i |-> 0]
Parsed(v, i) == [ok |-> TRUE, v |-> v, i |-> i]

IsDigit(c) == \E d \in 1..10 : DigitChars[d] = c
DigitVal(c) == (CHOOSE d \in 1..10 : DigitChars[d] = c) - 1

RECURSIVE SkipWs(_, _)
SkipWs(t, i) == IF i <= Len(t) /\ t[i] = " " THEN SkipWs(t, i + 1) ELSE i

RECURSIVE ParseString(_, _, _)
ParseString(t, i, acc) ==
    IF i > Len(t) THEN ParseError
    ELSE IF t[i] = "\"" THEN Parsed(PyStr(acc), i + 1)
    ELSE IF t[i] = "\\"
         THEN IF i + 1 > Len(t) THEN ParseError
              ELSE ParseString(t, i + 2, Append(acc, t[i + 1]))
    ELSE ParseString(t, i + 1, Append(acc, t[i]))

RECURSIVE ParseNat(_, _, _)
ParseNat(t, i, acc) ==
    IF i <= Len(t) /\ IsDigit(t[i])
    THEN ParseNat(t, i + 1, acc * 10 + DigitVal(t[i]))
    ELSE Parsed(PyInt(acc), i)

RECURSIVE ParseValue(_, _)
RECURSIVE ParseItems(_, _, _)
RECURSIVE ParsePairs(_, _, _)

ParseItems(t, i, acc) ==
    LET r == ParseValue(t, i) IN
    IF ~r.ok THEN ParseError
    ELSE LET j == SkipWs(t, r.i) IN
         IF j > Len(t) THEN ParseError
         ELSE IF t[j] = "," THEN ParseItems(t, SkipWs(t, j + 1), Append(acc, r.v))
         ELSE IF t[j] = "]" THEN Parsed(PyList(Append(acc, r.v)), j + 1)
         ELSE ParseError

ParsePairs(t, i, acc) ==
    IF i > Len(t) \/ t[i] # "\"" THEN ParseError
    ELSE LET key == ParseString(t, i + 1, << >>) IN
         IF ~key.ok THEN ParseError
         ELSE LET c == SkipWs(t, key.i) IN
              IF c > Len(t) \/ t[c] # ":" THEN ParseError
              ELSE LET r == ParseValue(t, SkipWs(t, c + 1)) IN
                   IF ~r.ok THEN ParseError
                   ELSE LET j == SkipWs(t, r.i)
                            acc1 == Append(acc, [k |-> key.v, v |-> r.v])
                        IN  IF j > Len(t) THEN ParseError
                            ELSE IF t[j] = "," THEN ParsePairs(t, SkipWs(t, j + 1), acc1)
                            ELSE IF t[j] = "}" THEN Parsed(OrderedDict(acc1), j + 1)
                            ELSE ParseError

ParseValue(t, i) ==
    IF i > Len(t) THEN ParseError
    ELSE IF t[i] = "\"" THEN ParseString(t, i + 1, << >>)
    ELSE IF t[i] = "n"
         THEN IF i + 3 <= Len(t) /\ SubSeq(t, i, i + 3) = <<"n", "u", "l", "l">>
              THEN Parsed(None, i + 4) ELSE ParseError
    ELSE IF t[i] = "-"
         THEN IF i + 1 <= Len(t) /\ IsDigit(t[i + 1])
              THEN LET r == ParseNat(t, i + 1, 0) IN Parsed(PyInt(-r.v.n), r.i)
              ELSE ParseError
    ELSE IF IsDigit(t[i]) THEN ParseNat(t, i, 0)
    ELSE IF t[i] = "["
         THEN LET j == SkipWs(t, i + 1) IN
              IF j <= Len(t) /\ t[j] = "]" THEN Parsed(PyList(<< >>), j + 1)
              ELSE ParseItems(t, j, << >>)
    ELSE IF t[i] = "{"
         THEN LET j == SkipWs(t, i + 1) IN
              IF j <= Len(t) /\ t[j] = "}" THEN Parsed(OrderedDict(<< >>), j + 1)
              ELSE ParsePairs(t, j, << >>)
    ELSE ParseError

json_loads(t) ==
    LET r == ParseValue(t, SkipWs(t, 1)) IN
    IF r.ok /\ SkipWs(t, r.i) = Len(t) + 1 THEN r.v ELSE Raise("ValueError")

\* ---------------------------------------------------------- descriptors
StringAccess__get__(self, instance) == _getStringAttr(instance, self.attr)

StringAccess__set__(self, instance, value) == _setStringAttr(instance, self.attr, value)

SingleConnectionAccess__get__(self, instance) == _getSingleConnection(instance, self.attr)

SingleConnectionAccess__set__(self, instance, value) ==
    _setSingleConnection(instance, self.attr, value)

SingleStringConnectionAccess__get__(self, instance) ==
    _getSingleStringConnection(instance, self.attr)

SingleStringConnectionAccess__set__(self, instance, value) ==
    _setSingleStringConnection(instance, self.attr, value)

JsonAccess__get__(self, instance) ==
    LET res == _getStringAttr(instance, self.attr) IN
    IF ~Truthy(res) THEN PyDict(<< >>) ELSE json_loads(res.s)

JsonAccess__set__(self, instance, value) ==
    LET v == PyStr(json_dumps(value)) IN _setStringAttr(instance, self.attr, v)

IntAccess__get__(self, instance) == _getIntAttr(instance, self.attr)

IntAccess__set__(self, instance, value) == _setIntAttr(instance, self.attr, value)

FloatAccess__get__(self, instance) == _getFloatAttr(instance, self.attr)

FloatAccess__set__(self, instance, value) == _setFloatAttr(instance, self.attr, value)

\* ------------------------------------------------------------ ProxyDict
\* A ProxyDict instance is its instance dictionary.  The class overrides
\* __setattr__ and __getattr__, so storing and (failed) lookup of ANY
\* attribute, self.d included, goes through the two methods below.
NewInstance == [t |-> "ProxyDict", dict |-> [n \in {} |-> None]]

RECURSIVE ProxyDict__getattr__(_, _, _)

\* self.<name>: the instance dictionary first, __getattr__ as the fallback.
PyGetAttribute(self, name, depth) ==
    IF name \in DOMAIN self.dict THEN self.dict[name]
    ELSE ProxyDict__getattr__(self, name, depth + 1)

ProxyDict__getattr__(self, a, depth) ==
    IF depth > RecursionLimit THEN Raise("RuntimeError")
    ELSE LET d == PyGetAttribute(self, <<"d">>, depth) IN
         IF d.t = "raise" THEN d ELSE DictGetItem(d.pairs, PyStr(a))

\* Returns the exception (or None), the instance and the node afterwards.
ProxyDict__setattr__(self, o, a, v, depth) ==
    LET d == PyGetAttribute(self, <<"d">>, depth) IN
    IF d.t = "raise" THEN [exc |-> d, self |-> self, obj |-> o]
    ELSE LET d1 == PyDict(DictSetItem(d.pairs, PyStr(a), v))
             self1 == [self EXCEPT !.dict[<<"d">>] = d1]
             attr == PyGetAttribute(self1, <<"a", "t", "t", "r">>, depth)
         IN  IF attr.t = "raise" THEN [exc |-> attr, self |-> self1, obj |-> o]
             ELSE [exc |-> None, self |-> self1,
                   obj |-> _setStringAttr(o, attr.name, PyStr(json_dumps(d1)))]

\* Returns the constructed proxy (or the exception) and the node afterwards.
ProxyDict__init__(d, o, attr) ==
    LET r1 == ProxyDict__setattr__(NewInstance, o, <<"d">>, d, 0) IN
    IF r1.exc # None THEN [ret |-> r1.exc, obj |-> r1.obj]
    ELSE LET r2 == ProxyDict__setattr__(r1.self, r1.obj, <<"i", "n", "s", "t">>,
                                        [t |-> "instance"], 0) IN
         IF r2.exc # None THEN [ret |-> r2.exc, obj |-> r2.obj]
         ELSE LET r3 == ProxyDict__setattr__(r2.self, r2.obj, <<"a", "t", "t", "r">>,
                                             [t |-> "attrname", name |-> attr], 0) IN
              IF r3.exc # None THEN [ret |-> r3.exc, obj |-> r3.obj]
              ELSE [ret |-> r3.self, obj |-> r3.obj]

JsonAccessDirect__get__(self, instance) ==
    LET res == _getStringAttr(instance, self.attr)
        d == IF Truthy(res)
             THEN PyDict(DictUpdate(self.defaults.pairs, json_loads(res.s).pairs))
             ELSE self.defaults
    IN  ProxyDict__init__(d, instance, self.attr)

JsonAccessDirect__set__(self, instance, value) ==
    LET v == PyStr(json_dumps(value)) IN _setStringAttr(instance, self.attr, v)

\* ------------------------------------------------- the class under test
Classes == {"StringAccess", "IntAccess", "FloatAccess", "SingleConnectionAccess",
            "SingleStringConnectionAccess", "JsonAccess", "JsonAccessDirect"}

\* defaults of the JsonAccessDirect descriptor: {"a": 0, "b": 2}
Defaults ==
    PyDict(<<[k |-> PyStr(<<"a">>), v |-> PyInt(0)],
             [k |-> PyStr(<<"b">>), v |-> PyInt(2)]>>)

\* The descriptor instance installed on the node's class.
Descriptor(c) ==
    CASE c = "StringAccess" -> [attr |-> StringAttrName]
      [] c = "IntAccess" -> [attr |-> IntAttrName]
      [] c = "FloatAccess" -> [attr |-> FloatAttrName]
      [] c = "SingleConnectionAccess" -> [attr |-> MirrorAttrName]
      [] c = "SingleStringConnectionAccess" -> [attr |-> TargetAttrName]
      [] c = "JsonAccess" -> [attr |-> DataAttrName]
      [] c = "JsonAccessDirect" -> [attr |-> DirectAttrName, defaults |-> Defaults]

\* The type the attribute is declared with when the scene author adds it.
DeclaredType(c) ==
    CASE c = "IntAccess" -> "long"
      [] c = "FloatAccess" -> "double"
      [] c = "SingleConnectionAccess" -> "message"
      [] OTHER -> "string"

\* ------------------------------------------------------- input domains
SeqsUpTo(S, n) == UNION {[1..m -> S] : m \in 0..n}

Strings == {<< >>, <<"a">>, <<"B">>}
Ints == {-1, 0, 12}
FloatsMilli == {-250, 0, 1500}
Nodes == {PyNode(nm) : nm \in NodeNames}

StringValues == {None} \cup {PyStr(s) : s \in Strings}
IntValues == {None} \cup {PyInt(n) : n \in Ints}
FloatValues == {None} \cup {PyFloat(m) : m \in FloatsMilli}
ConnectionValues == {None, EmptyStr} \cup Nodes \cup {PyStr(nm) : nm \in NodeNames}
StringConnectionValues == StringValues \cup Nodes

JsonAtoms == {None, PyInt(-1), PyInt(0), PyInt(12),
              EmptyStr, PyStr(<<"a">>), PyStr(<<"\"", "\\">>)}
JsonElems == {PyInt(12), PyStr(<<"a">>),
              PyDict(<<[k |-> PyStr(<<"b">>), v |-> PyList(<<PyInt(-1)>>)]>>)}
JsonKeys == {PyStr(<<"a">>), PyStr(<<"1">>), PyInt(1)}
JsonLists == {PyList(xs) : xs \in SeqsUpTo(JsonElems, MaxLen)}
JsonDicts ==
    {PyDict(ps) : ps \in {qs \in SeqsUpTo([k : JsonKeys, v : JsonElems], MaxLen) :
                            \A i, j \in 1..Len(qs) : qs[i].k = qs[j].k => i = j}}
JsonValues == JsonAtoms \cup JsonLists \cup JsonDicts
ProxyKeys == {<<"a">>, <<"c">>}

\* ------------------------------------------------------------- behaviour
Self == Descriptor(cls)

Call(op, arg, ret) ==
    [op |-> op, arg |-> arg, ret |-> ret,
     existed |-> hasAttr(obj, Self.attr),
     connected |-> listConnections(obj, Self.attr) # << >>,
     repeat |-> op = "set" /\ last.op = "set" /\ last.arg = arg]

AllAbsent == [a \in AttrNames |-> Absent]

Init ==
    /\ cls \in Classes
    /\ obj \in {AllAbsent, addAttr(AllAbsent, Descriptor(cls).attr, DeclaredType(cls))}
    /\ last = [op |-> "init", arg |-> None, ret |-> None, existed |-> FALSE,
               connected |-> FALSE, repeat |-> FALSE]
    /\ lastSet = Never

Got(ret) ==
    /\ last' = Call("get", None, ret)
    /\ UNCHANGED <<cls, obj, lastSet>>

Did(value, o) ==
    /\ obj' = o
    /\ last' = Call("set", value, None)
    /\ lastSet' = value
    /\ UNCHANGED cls

StringGet == cls = "StringAccess" /\ Got(StringAccess__get__(Self, obj))

StringSet ==
    /\ cls = "StringAccess"
    /\ \E value \in StringValues : Did(value, StringAccess__set__(Self, obj, value))

IntGet == cls = "IntAccess" /\ Got(IntAccess__get__(Self, obj))

IntSet ==
    /\ cls = "IntAccess"
    /\ \E value \in IntValues : Did(value, IntAccess__set__(Self, obj, value))

FloatGet == cls = "FloatAccess" /\ Got(FloatAccess__get__(Self, obj))

FloatSet ==
    /\ cls = "FloatAccess"
    /\ \E value \in FloatValues : Did(value, FloatAccess__set__(Self, obj, value))

SingleConnectionGet ==
    cls = "SingleConnectionAccess" /\ Got(SingleConnectionAccess__get__(Self, obj))

SingleConnectionSet ==
    /\ cls = "SingleConnectionAccess"
    /\ \E value \in ConnectionValues :
          Did(value, SingleConnectionAccess__set__(Self, obj, value))

SingleStringConnectionGet ==
    /\ cls = "SingleStringConnectionAccess"
    /\ Got(SingleStringConnectionAccess__get__(Self, obj))

SingleStringConnectionSet ==
    /\ cls = "SingleStringConnectionAccess"
    /\ \E value \in StringConnectionValues :
          Did(value, SingleStringConnectionAccess__set__(Self, obj, value))

JsonGet == cls = "JsonAccess" /\ Got(JsonAccess__get__(Self, obj))

JsonSet ==
    /\ cls = "JsonAccess"
    /\ \E value \in JsonValues : Did(value, JsonAccess__set__(Self, obj, value))

\* p = node.direct
JsonDirectGet ==
    /\ cls = "JsonAccessDirect"
    /\ LET g == JsonAccessDirect__get__(Self, obj) IN
       /\ obj' = g.obj
       /\ last' = Call("get", None, g.ret)
       /\ UNCHANGED <<cls, lastSet>>

JsonDirectSet ==
    /\ cls = "JsonAccessDirect"
    /\ \E value \in JsonDicts : Did(value, JsonAccessDirect__set__(Self, obj, value))

\* node.direct.k = v : a get, then a top-level key write on the proxy.
ProxyAssign ==
    /\ cls = "JsonAccessDirect"
    /\ \E a \in ProxyKeys, v \in JsonElems :
          LET g == JsonAccessDirect__get__(Self, obj)
              r == ProxyDict__setattr__(g.ret, g.obj, a, v, 0)
              item == [t |-> "item", k |-> a, v |-> v]
          IN  IF g.ret.t = "raise"
              THEN /\ obj' = g.obj
                   /\ last' = Call("proxyset", item, g.ret)
              ELSE /\ obj' = r.obj
                   /\ last' = Call("proxyset", item, r.exc)
    /\ UNCHANGED <<cls, lastSet>>

\* node.direct.k : a get, then a top-level key read on the proxy.
ProxyRead(o, a) ==
    LET g == JsonAccessDirect__get__(Descriptor("JsonAccessDirect"), o) IN
    IF g.ret.t = "raise" THEN g.ret ELSE ProxyDict__getattr__(g.ret, a, 0)

ProxyLookup ==
    /\ cls = "JsonAccessDirect"
    /\ \E a \in ProxyKeys :
          /\ last' = Call("proxyget", PyStr(a), ProxyRead(obj, a))
          /\ obj' = JsonAccessDirect__get__(Self, obj).obj
    /\ UNCHANGED <<cls, lastSet>>

Next ==
    \/ StringGet \/ StringSet
    \/ IntGet \/ IntSet
    \/ FloatGet \/ FloatSet
    \/ SingleConnectionGet \/ SingleConnectionSet
    \/ SingleStringConnectionGet \/ SingleStringConnectionSet
    \/ JsonGet \/ JsonSet
    \/ JsonDirectGet \/ JsonDirectSet
    \/ ProxyAssign \/ ProxyLookup

Spec == Init /\ [][Next]_vars

\* ================================================================ claims
A == Self.attr

Scalars == {"StringAccess", "IntAccess", "FloatAccess"}
ConnectionBacked == {"SingleConnectionAccess", "SingleStringConnectionAccess"}

\* The descriptor protocol: node.<name> and node.<name> = value.
DescriptorGet(c, o) ==
    CASE c = "StringAccess" -> StringAccess__get__(Descriptor(c), o)
      [] c = "IntAccess" -> IntAccess__get__(Descriptor(c), o)
      [] c = "FloatAccess" -> FloatAccess__get__(Descriptor(c), o)
      [] c = "SingleConnectionAccess" -> SingleConnectionAccess__get__(Descriptor(c), o)
      [] c = "SingleStringConnectionAccess" ->
            SingleStringConnectionAccess__get__(Descriptor(c), o)
      [] c = "JsonAccess" -> JsonAccess__get__(Descriptor(c), o)
      [] c = "JsonAccessDirect" -> JsonAccessDirect__get__(Descriptor(c), o).ret

\* C1: after a top-level key k is assigned v through the proxy returned by
\* JsonAccessDirect's get, the write has succeeded and an independent get on
\* the same node reads k as v.
C1_ProxyWritePersists ==
    (cls = "JsonAccessDirect" /\ last.op = "proxyset")
        => /\ last.ret = None
           /\ ProxyRead(obj, last.arg.k) = last.arg.v

\* C2 (as stated): right after SingleStringConnectionAccess set(node, B) with
\* B a Node, the stored string is empty and B is connected.
C2_NodeSetClearsString ==
    (cls = "SingleStringConnectionAccess" /\ last.op = "set" /\ last.arg.t = "node")
        => /\ attrGet(obj, A) = EmptyStr
           /\ listConnections(obj, A) = <<last.arg>>

\* C2 (amended): SingleStringConnectionAccess set(node, B) with B a Node
\* leaves the stored string as it was (empty when the set created the
\* attribute) and connects B.
C2_NodeSetKeepsString ==
    [][(cls = "SingleStringConnectionAccess" /\ last'.op = "set"
            /\ last'.arg.t = "node")
        => /\ hasAttr(obj', A)
           /\ attrGet(obj', A) = (IF hasAttr(obj, A) THEN attrGet(obj, A) ELSE EmptyStr)
           /\ listConnections(obj', A) = <<last'.arg>>]_vars

C2_Witness ==
    /\ cls = "SingleStringConnectionAccess"
    /\ last.op = "set" /\ last.arg.t = "node" /\ last.existed
    /\ attrGet(obj, A) # EmptyStr
    /\ listConnections(obj, A) = <<last.arg>>

ExpectedConnection(v) ==
    IF v = Never THEN None
    ELSE IF ~Truthy(v) THEN None
    ELSE IF v.t = "str" THEN PyNode(v.s)
    ELSE v

\* C3: SingleConnectionAccess get returns the Node of the most recent set
\* (a name resolved to its Node), and None when that set was None/empty or
\* no set ever happened.
C3_GetReturnsLastSet ==
    cls = "SingleConnectionAccess"
        => SingleConnectionAccess__get__(Self, obj) = ExpectedConnection(lastSet)

C3_Witness ==
    /\ cls = "SingleConnectionAccess"
    /\ last.op = "set" /\ last.connected /\ last.arg.t = "str" /\ last.arg.s # << >>
    /\ SingleConnectionAccess__get__(Self, obj) = PyNode(last.arg.s)

\* C4: SingleStringConnectionAccess set of a non-empty string while the
\* attribute is connected leaves no connection, and get returns that string.
C4_StringSetDisconnects ==
    (cls = "SingleStringConnectionAccess" /\ last.op = "set" /\ last.connected
            /\ last.arg.t = "str" /\ last.arg.s # << >>)
        => /\ listConnections(obj, A) = << >>
           /\ SingleStringConnectionAccess__get__(Self, obj) = last.arg

C4_Witness ==
    /\ cls = "SingleStringConnectionAccess"
    /\ last.op = "set" /\ last.connected
    /\ last.arg.t = "str" /\ last.arg.s # << >>
    /\ SingleStringConnectionAccess__get__(Self, obj) = last.arg

\* C5 (as stated): JsonAccess set(x) then get() yields x, for every value x
\* that json can serialize.
C5_JsonRoundTrip ==
    (cls = "JsonAccess" /\ last.op = "set")
        => JsonAccess__get__(Self, obj) = last.arg

RECURSIVE StringKeyed(_)
StringKeyed(v) ==
    CASE v.t = "dict" -> \A i \in 1..Len(v.pairs) :
                            v.pairs[i].k.t = "str" /\ StringKeyed(v.pairs[i].v)
      [] v.t = "list" -> \A i \in 1..Len(v.items) : StringKeyed(v.items[i])
      [] OTHER -> TRUE

\* C5 (amended): JsonAccess set(x) then get() yields x, key order included,
\* for every x built from None, integers, strings, lists and mappings whose
\* keys are all strings; whether or not the attribute existed before.
C5_JsonRoundTripStringKeys ==
    (cls = "JsonAccess" /\ last.op = "set" /\ StringKeyed(last.arg))
        => JsonAccess__get__(Self, obj) = last.arg

C5_Witness ==
    /\ cls = "JsonAccess" /\ last.op = "set" /\ ~last.existed
    /\ last.arg.t = "dict" /\ Len(last.arg.pairs) = MaxLen
    /\ StringKeyed(last.arg)
    /\ JsonAccess__get__(Self, obj) = last.arg

MissingDefault(c) ==
    CASE c = "StringAccess" -> PyStr(<< >>)
      [] c = "IntAccess" -> PyInt(-666)
      [] c = "FloatAccess" -> PyFloat(-666666)
      [] c = "JsonAccess" -> PyDict(<< >>)
      [] c = "SingleConnectionAccess" -> None
      [] c = "SingleStringConnectionAccess" -> PyStr(<< >>)

C7_ScalarRoundTrip ==
    (cls \in Scalars /\ last.op = "set" /\ last.arg # None)
        => DescriptorGet(cls, obj) = last.arg

C7_Witness ==
    /\ cls = "IntAccess" /\ last.op = "set" /\ ~last.existed
    /\ last.arg = PyInt(12)
    /\ DescriptorGet(cls, obj) = PyInt(12)

StorageType(c) ==
    CASE c = "StringAccess" -> "string"
      [] c = "IntAccess" -> "long"
      [] c = "FloatAccess" -> "double"

\* C8: for the scalar accessors, set(None) writes no value: an existing
\* attribute is left as it is, an absent one is created with the accessor's
\* storage type and keeps the value it was created with.
C8_SetNoneWritesNothing ==
    [][(cls \in Scalars /\ last'.op = "set" /\ last'.arg = None)
        => IF hasAttr(obj, A)
           THEN obj' = obj
           ELSE obj' = [obj EXCEPT ![A] =
                           [exists |-> TRUE, type |-> StorageType(cls),
                            value |-> FreshValue(StorageType(cls)),
                            conns |-> << >>]]]_vars

C8_Witness ==
    /\ cls = "StringAccess" /\ last.op = "set" /\ last.arg = None /\ last.existed
    /\ attrGet(obj, A) = PyStr(<<"a">>)

\* C9: a falsy value set through a connection-backed accessor disconnects
\* an existing attribute without deleting it, and leaves a node without the
\* attribute unchanged.
C9_FalsyDisconnects ==
    [][(cls \in ConnectionBacked /\ last'.op = "set" /\ ~Truthy(last'.arg))
        => IF hasAttr(obj, A)
           THEN hasAttr(obj', A) /\ listConnections(obj', A) = << >>
           ELSE obj' = obj]_vars

C9_Witness ==
    /\ cls \in ConnectionBacked
    /\ last.op = "set" /\ ~Truthy(last.arg) /\ last.existed /\ last.connected
    /\ hasAttr(obj, A) /\ listConnections(obj, A) = << >>

\* C10: every setter is idempotent with respect to get: a second set (or
\* proxy key write) with the same value leaves the outcome of get as the
\* first one left it.
C10_SetIdempotent ==
    [][(last.op \in {"set", "proxyset"} /\ last'.op = last.op /\ last'.arg = last.arg)
        => DescriptorGet(cls, obj') = DescriptorGet(cls, obj)]_vars

C10_Witness ==
    /\ last.op = "set" /\ last.repeat
    /\ cls = "SingleStringConnectionAccess" /\ last.arg.t = "node"
    /\ DescriptorGet(cls, obj) = last.arg

====
